---- MODULE Spec2Model ----
(***************************************************************************)
(* neststats: two pollers (thermostat, weather) refresh a mutex-guarded     *)
(* in-memory cache and a set of gauges; HTTP handlers copy the cache out.   *)
(* The source file holds two builds of the program: build 2 (thermostat +   *)
(* weather, /data handler, lines 1-276) and build 1 (thermostat only,       *)
(* / handler, lines 278-446).  Floats are modelled as integer tenths.       *)
(***************************************************************************)
EXTENDS Integers, FiniteSets, Sequences, TLC

\* Largest value the wall clock reaches; time.Time{} (the zero time) is 0.
MaxTime == 2

Sources == {"nest", "weather"}
Builds == {1, 2}

\* ------------------------------------------------------------------ data
ZeroThermostatData ==
  [CurrentHumidity |-> 0, CurrentTemperature |-> 0, TargetTemperature |-> 0,
   HvacState |-> "", StructureID |-> ""]

ZeroOwmWeatherMain == [Temperature |-> 0, Pressure |-> 0, Humidity |-> 0]

ZeroTime == 0

ZeroStampedData ==
  [ThermostatStamp |-> ZeroTime, ThermostatData |-> ZeroThermostatData,
   WeatherStamp |-> ZeroTime, WeatherData |-> ZeroOwmWeatherMain]

\* Upstream JSON documents, as maps from keys to values.
NestFullJson ==
  [humidity |-> 452, ambient_temperature_c |-> 210, target_temperature_c |-> 225,
   hvac_state |-> "heating", structure_id |-> "abc"]
NestPartialJson == [humidity |-> 500, hvac_state |-> "off"]
ErrorJson == [error |-> "unauthorized"]
NotJson == [raw |-> "<html>"]
OwmFullJson == [main |-> [temp |-> 27, pressure |-> 1018, humidity |-> 55], cod |-> 200]

\* What one upstream call can come back with.  kind "transport": client.Do /
\* http.Get returned an error and no response; kind "read": the body could not
\* be read; kind "resp": a response with a status and a body (valid: the body
\* parses as JSON).
NoReply == [kind |-> "none", status |-> 0, valid |-> FALSE, json |-> ErrorJson]
TransportError == [kind |-> "transport", status |-> 0, valid |-> FALSE, json |-> ErrorJson]
ReadError == [kind |-> "read", status |-> 200, valid |-> FALSE, json |-> ErrorJson]
Response(st, ok, j) == [kind |-> "resp", status |-> st, valid |-> ok, json |-> j]

NestReplies ==
  {TransportError, ReadError,
   Response(200, TRUE, NestFullJson), Response(200, TRUE, NestPartialJson),
   Response(401, TRUE, ErrorJson)}

WeatherReplies ==
  {TransportError, ReadError,
   Response(200, TRUE, OwmFullJson), Response(503, FALSE, NotJson)}

Replies(s) == IF s = "nest" THEN NestReplies ELSE WeatherReplies

Field(j, k, default) == IF k \in DOMAIN j THEN j[k] ELSE default

\* Mutant: a decoder that rejects a body with a key missing.
UnmarshalThermostatStrict(build, r, into) ==
  IF ~r.valid \/ \E k \in {"humidity", "ambient_temperature_c", "target_temperature_c"} :
                   k \notin DOMAIN r.json
  THEN into
  ELSE [CurrentHumidity |-> r.json.humidity,
        CurrentTemperature |-> r.json.ambient_temperature_c,
        TargetTemperature |-> r.json.target_temperature_c,
        HvacState |-> IF build = 2 THEN Field(r.json, "hvac_state", into.HvacState)
                      ELSE into.HvacState,
        StructureID |-> IF build = 2 THEN Field(r.json, "structure_id", into.StructureID)
                        ELSE into.StructureID]

\* json.Unmarshal(body, &data) for ThermostatData: a body that is not JSON
\* leaves data untouched; a key that is absent leaves its field untouched.
\* Build 1's struct has no hvac_state and no structure_id field.
UnmarshalThermostat(build, r, into) ==
  IF ~r.valid THEN into
  ELSE [CurrentHumidity |-> Field(r.json, "humidity", into.CurrentHumidity),
        CurrentTemperature |-> Field(r.json, "ambient_temperature_c", into.CurrentTemperature),
        TargetTemperature |-> Field(r.json, "target_temperature_c", into.TargetTemperature),
        HvacState |-> IF build = 2 THEN Field(r.json, "hvac_state", into.HvacState)
                      ELSE into.HvacState,
        StructureID |-> IF build = 2 THEN Field(r.json, "structure_id", into.StructureID)
                        ELSE into.StructureID]

\* json.Unmarshal(body, &result) for OwmResult, returning result.WeatherMain.
UnmarshalOwm(r, into) ==
  IF ~r.valid \/ "main" \notin DOMAIN r.json THEN into
  ELSE [Temperature |-> Field(r.json.main, "temp", into.Temperature),
        Pressure |-> Field(r.json.main, "pressure", into.Pressure),
        Humidity |-> Field(r.json.main, "humidity", into.Humidity)]

\* The value the poller of source s decodes from reply r: the target of the
\* Unmarshal is a fresh zero value (var data ThermostatData / var result OwmResult).
Decode(build, s, r) ==
  IF s = "nest" THEN UnmarshalThermostat(build, r, ZeroThermostatData)
  ELSE UnmarshalOwm(r, ZeroOwmWeatherMain)

ZeroReading(s) == IF s = "nest" THEN ZeroThermostatData ELSE ZeroOwmWeatherMain

\* The gauges each build registers.
Gauges ==
  {"env_humidity", "env_temperature", "target_temperature", "is_heating",
   "outside_humidity", "outside_temperature", "outside_pressure"}
Registered(build) ==
  IF build = 2 THEN Gauges
  ELSE {"env_humidity", "env_temperature", "target_temperature"}

VARIABLES
  build,             \* which of the two programs runs
  clientSecret, thermostatID, owmAPIKey,   \* the flags
  proc,              \* the main goroutine / the process
  now,               \* the wall clock, as of its last reading
  ticker,            \* per source: "none" (not created), "empty", "tick" (one tick buffered)
  pc,                \* per source: the poller's position
  reply,             \* per source: the outcome of the poller's current upstream call
  ts,                \* per source: the decoded value the poller holds (ts / result.WeatherMain)
  fetchStart,        \* per source: the clock's last reading when the current fetch was initiated
  fetched,           \* per source: a request has been sent upstream since the start
  logged,            \* per source: the current call logged "error: ..."
  currentData, currentDataTime, currentWeather, currentWeatherTime,
  currentDataMutex,  \* "free" or its holder
  lastStore,         \* per source: the (Reading, timestamp) of the last completed store
  lastGood,          \* per source: the last fetch answered 2xx with a JSON body, if any
  gauge,             \* gauge name -> value
  hpc,               \* the HTTP handler's position
  data,              \* the handler's local copy
  resp               \* the last response written

cacheVars == <<currentData, currentDataTime, currentWeather, currentWeatherTime>>
flagVars == <<build, clientSecret, thermostatID, owmAPIKey>>
pollerVars == <<pc, reply, ts, fetchStart, fetched, logged>>
handlerVars == <<hpc, data, resp>>
vars == <<flagVars, proc, now, ticker, pollerVars, cacheVars,
          currentDataMutex, lastStore, lastGood, gauge, handlerVars>>

NoResp == [status |-> 0, body |-> [none |-> TRUE]]

Init ==
  /\ build \in Builds
  /\ clientSecret \in {"", "secret"}
  /\ thermostatID \in {"", "tid"}
  /\ owmAPIKey \in {"", "key"}
  /\ (build = 1 => owmAPIKey = "")
  /\ proc = "parse"
  /\ now = 1
  /\ ticker = [s \in Sources |-> "none"]
  /\ pc = [s \in Sources |-> "off"]
  /\ reply = [s \in Sources |-> NoReply]
  /\ ts = [s \in Sources |-> ZeroReading(s)]
  /\ fetchStart = [s \in Sources |-> ZeroTime]
  /\ fetched = [s \in Sources |-> FALSE]
  /\ logged = [s \in Sources |-> FALSE]
  /\ currentData = ZeroThermostatData
  /\ currentDataTime = ZeroTime
  /\ currentWeather = ZeroOwmWeatherMain
  /\ currentWeatherTime = ZeroTime
  /\ currentDataMutex = "free"
  /\ lastStore = [s \in Sources |-> [reading |-> ZeroReading(s), stamp |-> ZeroTime]]
  /\ lastGood = [s \in Sources |-> [seen |-> FALSE, reading |-> ZeroReading(s)]]
  /\ gauge = [g \in Gauges |-> 0]
  /\ hpc = "idle"
  /\ data = ZeroStampedData
  /\ resp = NoResp

\* ------------------------------------------------------------------ main
\* The process has neither exited nor panicked.
Alive == proc \in {"parse", "startNest", "startWeather", "firstFetch", "listen", "serving"}

\* A written response is an output that nothing in the process reads back: it
\* is delivered to the client before the process takes its next step.
Running == Alive /\ resp = NoResp

\* The HTTP listener is bound and the server accepts requests.
Listening == proc = "serving"

\* os.Exit (log.Fatal, log.Fatalf) or an unrecovered panic: the process is gone,
\* and with it its goroutines, its tickers, its memory and its listener.
Exit(how) ==
  /\ proc' = how
  /\ now' = now
  /\ ticker' = [s \in Sources |-> "none"]
  /\ pc' = [s \in Sources |-> "off"]
  /\ reply' = [s \in Sources |-> NoReply]
  /\ ts' = [s \in Sources |-> ZeroReading(s)]
  /\ fetchStart' = [s \in Sources |-> ZeroTime]
  /\ fetched' = fetched
  /\ logged' = [s \in Sources |-> FALSE]
  /\ currentData' = ZeroThermostatData
  /\ currentDataTime' = ZeroTime
  /\ currentWeather' = ZeroOwmWeatherMain
  /\ currentWeatherTime' = ZeroTime
  /\ currentDataMutex' = "free"
  /\ lastStore' = [s \in Sources |-> [reading |-> ZeroReading(s), stamp |-> ZeroTime]]
  /\ lastGood' = [s \in Sources |-> [seen |-> FALSE, reading |-> ZeroReading(s)]]
  /\ gauge' = [g \in Gauges |-> 0]
  /\ hpc' = "idle"
  /\ data' = ZeroStampedData
  /\ resp' = NoResp
  /\ UNCHANGED flagVars

\* Mutant: the thermostat id is not required.
FlagsMissingSecretOnly == clientSecret = ""

\* *clientSecret == "" || *thermostatID == ""
FlagsMissing == clientSecret = "" \/ thermostatID = ""

\* flag.Parse and the required-flag test; build 1 then calls downloadAndStore
\* itself, on the main goroutine.
MainParse ==
  /\ Running
  /\ proc = "parse"
  /\ IF FlagsMissing
     THEN Exit("fatalFlags")
     ELSE /\ IF build = 2
             THEN proc' = "startNest" /\ pc' = pc
             ELSE proc' = "firstFetch" /\ pc' = [pc EXCEPT !["nest"] = "begin"]
          /\ UNCHANGED <<flagVars, now, ticker, reply, ts, fetchStart, fetched, logged,
                         cacheVars, currentDataMutex, lastStore, lastGood, gauge, handlerVars>>

\* Build 2: nestTicker is created and the thermostat goroutine is launched.
MainStartNest ==
  /\ Running
  /\ proc = "startNest"
  /\ ticker' = [ticker EXCEPT !["nest"] = "empty"]
  /\ pc' = [pc EXCEPT !["nest"] = "begin"]
  /\ proc' = "startWeather"
  /\ UNCHANGED <<flagVars, now, reply, ts, fetchStart, fetched,
                 logged, cacheVars, currentDataMutex, lastStore, lastGood, gauge, handlerVars>>

\* Build 2: weatherTicker is created and the weather goroutine is launched.
MainStartWeather ==
  /\ Running
  /\ proc = "startWeather"
  /\ ticker' = [ticker EXCEPT !["weather"] = "empty"]
  /\ pc' = [pc EXCEPT !["weather"] = "check"]
  /\ proc' = "listen"
  /\ UNCHANGED <<flagVars, now, reply, ts, fetchStart, fetched,
                 logged, cacheVars, currentDataMutex, lastStore, lastGood, gauge, handlerVars>>

\* Build 1: downloadAndStore has returned to main; the ticker is created and the
\* loop goroutine is launched.
MainStartTicker ==
  /\ Running
  /\ proc = "firstFetch"
  /\ pc["nest"] = "wait"
  /\ ticker' = [ticker EXCEPT !["nest"] = "empty"]
  /\ proc' = "listen"
  /\ UNCHANGED <<flagVars, now, pollerVars, cacheVars, currentDataMutex,
                 lastStore, lastGood, gauge, handlerVars>>

\* http.HandleFunc ... log.Fatal(http.ListenAndServe(...)): the listener binds, or
\* the bind fails and the process exits.
MainListen ==
  /\ Running
  /\ proc = "listen"
  /\ \/ /\ proc' = "serving"
        /\ UNCHANGED <<flagVars, now, ticker, pollerVars, cacheVars, currentDataMutex,
                       lastStore, lastGood, gauge, handlerVars>>
     \/ Exit("fatalBind")


\* ------------------------------------------------------------------ time
\* A reading of the wall clock: time does not run backwards.  The clock is
\* tracked at its readings only.
ClockReadings == now .. MaxTime

\* A ticker sends on its channel of capacity 1; a tick that finds it full is dropped.
TickerFire(s) ==
  /\ Running
  /\ ticker[s] = "empty"
  /\ ticker' = [ticker EXCEPT ![s] = "tick"]
  /\ UNCHANGED <<flagVars, proc, now, pollerVars, cacheVars,
                 currentDataMutex, lastStore, lastGood, gauge, handlerVars>>

\* ------------------------------------------------------------------ pollers
\* Mutant: the API key is not looked at.
WeatherEnabledAlways == TRUE

\* *owmAPIKey == "" is false.
WeatherEnabled == owmAPIKey # ""

\* The weather goroutine's first statement: no API key, no polling.
WeatherCheck ==
  /\ Running
  /\ pc["weather"] = "check"
  /\ pc' = [pc EXCEPT !["weather"] = IF WeatherEnabled THEN "begin" ELSE "done"]
  /\ UNCHANGED <<flagVars, proc, now, ticker, reply, ts, fetchStart, fetched,
                 logged, cacheVars, currentDataMutex, lastStore, lastGood, gauge, handlerVars>>

\* The call of download*AndStore up to the request being sent.  The thermostat
\* client builds the request (an error is returned and logged), dumps it through
\* debug (an error there is log.Fatalf: the process exits), then sends it.
\* The weather client sends straight away.
\* tk is what the step leaves in the ticker channels.  fetchStart records the
\* clock's last reading at the call (the call itself does not read the clock).
Call(s, tk) ==
  \/ /\ fetchStart' = [fetchStart EXCEPT ![s] = now]
     /\ UNCHANGED now
     /\ ts' = [ts EXCEPT ![s] = ZeroReading(s)]
     /\ reply' = [reply EXCEPT ![s] = NoReply]
     /\ ticker' = tk
     /\ \/ /\ pc' = [pc EXCEPT ![s] = "fetch"]
           /\ fetched' = [fetched EXCEPT ![s] = TRUE]
           /\ logged' = [logged EXCEPT ![s] = FALSE]
        \/ /\ s = "nest"
           /\ pc' = [pc EXCEPT ![s] = "wait"]
           /\ logged' = [logged EXCEPT ![s] = TRUE]
           /\ UNCHANGED fetched
     /\ UNCHANGED <<flagVars, proc, cacheVars, currentDataMutex, lastStore, lastGood, gauge,
                    handlerVars>>
  \/ /\ s = "nest"
     /\ Exit("fatalDump")

\* Mutant: the first call waits for the first tick.
PollerStartAfterTick(s) ==
  /\ Running
  /\ pc[s] = "begin"
  /\ ticker[s] = "tick"
  /\ Call(s, [ticker EXCEPT ![s] = "empty"])

\* Mutant: every tick starts a call, whether or not the previous one is over.
PollerTickWhileBusy(s) ==
  /\ Running
  /\ pc[s] \in {"wait", "fetch"}
  /\ ticker[s] = "tick"
  /\ Call(s, [ticker EXCEPT ![s] = "empty"])

\* The first call of a poller, before its loop over the ticker.
PollerStart(s) ==
  /\ Running
  /\ pc[s] = "begin"
  /\ Call(s, ticker)

\* for t := range ticker.C: the poller receives a tick and calls download*AndStore.
PollerTick(s) ==
  /\ Running
  /\ pc[s] = "wait"
  /\ ticker[s] = "tick"
  /\ Call(s, [ticker EXCEPT ![s] = "empty"])

\* A response with a 2xx status and a body that parses as JSON.
GoodResponse(r) == r.kind = "resp" /\ r.status \in 200..299 /\ r.valid

\* resp == nil: the call returned an error and no response.
NilResponse(r) == r.kind = "transport"

\* err != nil after the call and the body read (client.Do / ioutil.ReadAll).
ReturnsError(s, r) == r.kind \in {"transport", "read"}

\* The upstream call comes back.  downloadNest returns an error for a transport
\* failure and for a failed body read, and otherwise returns the decoded value
\* with a nil error: neither the status nor Unmarshal's result is looked at.
\* downloadWeatherAndStore evaluates resp.Body on the nil response of a failed
\* http.Get (a nil dereference: the process panics); a failed body read is logged
\* and the call returns; otherwise it goes on to store.  lastGood records the
\* fetches answered 2xx with a JSON body; the code keeps no such record.
FetchReturn(s, r) ==
  /\ Running
  /\ pc[s] = "fetch"
  /\ r \in Replies(s)
  /\ IF s = "weather" /\ NilResponse(r)
     THEN Exit("panic")
     ELSE /\ reply' = [reply EXCEPT ![s] = r]
          /\ IF ReturnsError(s, r)
             THEN /\ pc' = [pc EXCEPT ![s] = "wait"]
                  /\ logged' = [logged EXCEPT ![s] = TRUE]
                  /\ UNCHANGED ts
             ELSE /\ pc' = [pc EXCEPT ![s] = "lock"]
                  /\ ts' = [ts EXCEPT ![s] = Decode(build, s, r)]
                  /\ UNCHANGED logged
          /\ lastGood' = IF GoodResponse(r)
                         THEN [lastGood EXCEPT ![s] = [seen |-> TRUE,
                                                       reading |-> Decode(build, s, r)]]
                         ELSE lastGood
          /\ UNCHANGED <<flagVars, proc, now, ticker, fetchStart, fetched, cacheVars,
                         currentDataMutex, lastStore, gauge, handlerVars>>

\* Mutant: Lock() that never waits.
MutexFreeNoWait(who) == TRUE

\* currentDataMutex.Lock() by who returns once the mutex is free.
MutexFree(who) == currentDataMutex = "free"

PollerLock(s) ==
  /\ Running
  /\ pc[s] = "lock"
  /\ MutexFree(s)
  /\ currentDataMutex' = s
  /\ pc' = [pc EXCEPT ![s] = "setData"]
  /\ UNCHANGED <<flagVars, proc, now, ticker, reply, ts, fetchStart, fetched,
                 logged, cacheVars, lastStore, lastGood, gauge, handlerVars>>

\* currentData = ts / currentWeather = result.WeatherMain
PollerSetData(s) ==
  /\ Running
  /\ pc[s] = "setData"
  /\ IF s = "nest"
     THEN currentData' = ts[s] /\ UNCHANGED currentWeather
     ELSE currentWeather' = ts[s] /\ UNCHANGED currentData
  /\ pc' = [pc EXCEPT ![s] = "setTime"]
  /\ UNCHANGED <<flagVars, proc, now, ticker, reply, ts, fetchStart, fetched,
                 logged, currentDataTime, currentWeatherTime, currentDataMutex,
                 lastStore, lastGood, gauge, handlerVars>>

\* Mutant: the store keeps the timestamp of the store before it.
StoreStampStale(s, t) == lastStore[s].stamp

\* The timestamp a store writes when the clock reads t: time.Now().
StoreStamp(s, t) == t

\* currentDataTime = time.Now() / currentWeatherTime = time.Now()
PollerSetTime(s) ==
  /\ Running
  /\ pc[s] = "setTime"
  /\ \E t \in ClockReadings :
       /\ now' = t
       /\ IF s = "nest"
          THEN currentDataTime' = StoreStamp(s, t) /\ UNCHANGED currentWeatherTime
          ELSE currentWeatherTime' = StoreStamp(s, t) /\ UNCHANGED currentDataTime
       /\ lastStore' = [lastStore EXCEPT ![s] = [reading |-> ts[s], stamp |-> StoreStamp(s, t)]]
  /\ pc' = [pc EXCEPT ![s] = "unlock"]
  /\ UNCHANGED <<flagVars, proc, ticker, reply, ts, fetchStart, fetched,
                 logged, currentData, currentWeather, currentDataMutex, lastGood,
                 gauge, handlerVars>>

\* Mutant: the poller goes on without Unlock().
PollerUnlockForgotten(s) ==
  /\ Running
  /\ pc[s] = "unlock"
  /\ pc' = [pc EXCEPT ![s] = "gauges"]
  /\ UNCHANGED <<flagVars, proc, now, ticker, reply, ts, fetchStart, fetched,
                 logged, cacheVars, currentDataMutex, lastStore, lastGood, gauge, handlerVars>>

\* currentDataMutex.Unlock(); the gauge writes follow.
PollerUnlock(s) ==
  /\ Running
  /\ pc[s] = "unlock"
  /\ currentDataMutex' = "free"
  /\ pc' = [pc EXCEPT ![s] = "gauges"]
  /\ UNCHANGED <<flagVars, proc, now, ticker, reply, ts, fetchStart, fetched,
                 logged, cacheVars, lastStore, lastGood, gauge, handlerVars>>

\* ts.HvacState == "heating"
IsHeating(v) == IF v.HvacState = "heating" THEN 1 ELSE 0

\* Mutant: the weather poller writes its humidity to the thermostat's gauge.
GaugeWritesOneHumidity(b, s, v) ==
  IF s = "nest"
  THEN {<<"env_humidity", v.CurrentHumidity>>,
        <<"env_temperature", v.CurrentTemperature>>,
        <<"target_temperature", v.TargetTemperature>>}
       \cup (IF b = 2 THEN {<<"is_heating", IsHeating(v)>>} ELSE {})
  ELSE {<<"env_humidity", v.Humidity>>,
        <<"outside_temperature", v.Temperature>>,
        <<"outside_pressure", v.Pressure>>}

\* Mutant: ambient and target temperature are written to each other's gauge.
GaugeWritesSwapped(b, s, v) ==
  IF s = "nest"
  THEN {<<"env_humidity", v.CurrentHumidity>>,
        <<"env_temperature", v.TargetTemperature>>,
        <<"target_temperature", v.CurrentTemperature>>}
       \cup (IF b = 2 THEN {<<"is_heating", IsHeating(v)>>} ELSE {})
  ELSE {<<"outside_humidity", v.Humidity>>,
        <<"outside_temperature", v.Temperature>>,
        <<"outside_pressure", v.Pressure>>}

\* The gauge writes that follow one store.
GaugeWrites(b, s, v) ==
  IF s = "nest"
  THEN {<<"env_humidity", v.CurrentHumidity>>,
        <<"env_temperature", v.CurrentTemperature>>,
        <<"target_temperature", v.TargetTemperature>>}
       \cup (IF b = 2 THEN {<<"is_heating", IsHeating(v)>>} ELSE {})
  ELSE {<<"outside_humidity", v.Humidity>>,
        <<"outside_temperature", v.Temperature>>,
        <<"outside_pressure", v.Pressure>>}

\* promX.Set(...) for each gauge of the source; download*AndStore then returns
\* and the poller waits for its next tick.
PollerSetGauges(s) ==
  /\ Running
  /\ pc[s] = "gauges"
  /\ LET ws == GaugeWrites(build, s, ts[s])
     IN gauge' = [g \in Gauges |->
                    IF \E w \in ws : w[1] = g
                    THEN (CHOOSE w \in ws : w[1] = g)[2]
                    ELSE gauge[g]]
  /\ pc' = [pc EXCEPT ![s] = "wait"]
  /\ UNCHANGED <<flagVars, proc, now, ticker, reply, ts, fetchStart, fetched,
                 logged, cacheVars, currentDataMutex, lastStore, lastGood, handlerVars>>

\* ------------------------------------------------------------------ HTTP front
\* json.Marshal of the handler's copy.
MarshalThermostat(b, d) ==
  IF b = 2
  THEN [humidity |-> d.CurrentHumidity, ambient_temperature_c |-> d.CurrentTemperature,
        target_temperature_c |-> d.TargetTemperature, hvac_state |-> d.HvacState,
        structure_id |-> d.StructureID]
  ELSE [humidity |-> d.CurrentHumidity, target_temperature_c |-> d.TargetTemperature,
        ambient_temperature_c |-> d.CurrentTemperature]

MarshalOwm(d) == [temp |-> d.Temperature, pressure |-> d.Pressure, humidity |-> d.Humidity]

Marshal(b, d) ==
  IF b = 2
  THEN [thermostatStamp |-> d.ThermostatStamp,
        thermostatData |-> MarshalThermostat(b, d.ThermostatData),
        weatherStamp |-> d.WeatherStamp,
        weatherData |-> MarshalOwm(d.WeatherData)]
  ELSE MarshalThermostat(b, d.ThermostatData)

\* The server accepts a request and starts the handler (var data ...).
HttpAccept ==
  /\ Running
  /\ Listening
  /\ hpc = "idle"
  /\ hpc' = "lock"
  /\ UNCHANGED <<data, resp>>
  /\ UNCHANGED <<flagVars, proc, now, ticker, pollerVars, cacheVars,
                 currentDataMutex, lastStore, lastGood, gauge>>

HttpLock ==
  /\ Running
  /\ hpc = "lock"
  /\ MutexFree("http")
  /\ currentDataMutex' = "http"
  /\ hpc' = "copy"
  /\ UNCHANGED <<flagVars, proc, now, ticker, pollerVars, cacheVars,
                 lastStore, lastGood, gauge, data, resp>>

\* Mutant: the first assignment is written the wrong way round.
HttpCopyReversed ==
  /\ Running
  /\ hpc = "copy"
  /\ currentData' = data.ThermostatData
  /\ hpc' = "unlock"
  /\ UNCHANGED <<flagVars, proc, now, ticker, pollerVars, currentDataTime, currentWeather,
                 currentWeatherTime, currentDataMutex, lastStore, lastGood, gauge, data, resp>>

\* The handler's copy statements: httpDataHandler copies the four cache
\* variables, rootPageHandler copies currentData alone.
HttpCopy ==
  /\ Running
  /\ hpc = "copy"
  /\ data' = IF build = 2
             THEN [ThermostatData |-> currentData, ThermostatStamp |-> currentDataTime,
                   WeatherData |-> currentWeather, WeatherStamp |-> currentWeatherTime]
             ELSE [data EXCEPT !.ThermostatData = currentData]
  /\ hpc' = "unlock"
  /\ UNCHANGED <<flagVars, proc, now, ticker, pollerVars, cacheVars,
                 currentDataMutex, lastStore, lastGood, gauge, resp>>

\* The status of a response written with w.Write and no WriteHeader call.
WriteStatus == 200

\* currentDataMutex.Unlock(); b, _ := json.Marshal(data); w.Write(b)
HttpReply ==
  /\ Running
  /\ hpc = "unlock"
  /\ currentDataMutex' = "free"
  /\ resp' = [status |-> WriteStatus, body |-> Marshal(build, data)]
  /\ data' = ZeroStampedData
  /\ hpc' = "idle"
  /\ UNCHANGED <<flagVars, proc, now, ticker, pollerVars, cacheVars, lastStore, lastGood, gauge>>

\* The client receives the response.
HttpDeliver ==
  /\ resp # NoResp
  /\ resp' = NoResp
  /\ UNCHANGED <<flagVars, proc, now, ticker, pollerVars, cacheVars, currentDataMutex,
                 lastStore, lastGood, gauge, hpc, data>>

\* ------------------------------------------------------------------ system
Next ==
  \/ MainParse
  \/ MainStartNest
  \/ MainStartWeather
  \/ MainStartTicker
  \/ MainListen
  \/ \E s \in Sources : TickerFire(s)
  \/ WeatherCheck
  \/ \E s \in Sources : PollerStart(s)
  \/ \E s \in Sources : PollerTick(s)
  \/ \E s \in Sources : \E r \in Replies(s) : FetchReturn(s, r)
  \/ \E s \in Sources : PollerLock(s)
  \/ \E s \in Sources : PollerSetData(s)
  \/ \E s \in Sources : PollerSetTime(s)
  \/ \E s \in Sources : PollerUnlock(s)
  \/ \E s \in Sources : PollerSetGauges(s)
  \/ HttpAccept
  \/ HttpLock
  \/ HttpCopy
  \/ HttpReply
  \/ HttpDeliver

Spec == Init /\ [][Next]_vars

\* ------------------------------------------------------------------ scheduling
\* The steps of the goroutine of source s, with the ticks of its ticker.
GoroutineStep(s) ==
  \/ PollerStart(s)
  \/ PollerTick(s)
  \/ PollerLock(s)
  \/ PollerSetData(s)
  \/ PollerSetTime(s)
  \/ PollerUnlock(s)
  \/ PollerSetGauges(s)

SourceStep(s) == GoroutineStep(s) \/ TickerFire(s) \/ (s = "weather" /\ WeatherCheck)

\* The steps of a poller that holds the mutex.
HoldStep(s) == PollerSetData(s) \/ PollerSetTime(s) \/ PollerUnlock(s)

MainStep == MainParse \/ MainStartNest \/ MainStartWeather \/ MainStartTicker \/ MainListen

\* The steps of a handler that has the mutex, and the delivery of its response.
HandlerRun == HttpCopy \/ HttpReply \/ HttpDeliver

\* The program with every upstream call returning.  Every goroutine that can
\* take a step eventually takes it (the Go scheduler is preemptive), tickers
\* keep ticking, a written response reaches the client, and a Lock() that finds
\* the mutex free again and again eventually gets it (sync.Mutex hands the
\* mutex over to a waiter that has starved).  Requests arrive as the clients
\* please.  The fairness of a source is strong because a step of the model is
\* also held back while a response is being delivered.
FairSpec ==
  /\ Spec
  /\ WF_vars(MainStep)
  /\ WF_vars(HandlerRun)
  /\ SF_vars(HttpLock)
  /\ \A s \in Sources : SF_vars(SourceStep(s) \/ \E r \in Replies(s) : FetchReturn(s, r))

\* The program with nothing assumed of upstream calls, tickers and requests: a
\* goroutine that holds the mutex goes on to release it, and a handler's Lock()
\* that finds the mutex free again and again eventually gets it.
HangSpec == Spec /\ SF_vars(HttpLock) /\ \A s \in Sources : WF_vars(HoldStep(s))

\* ------------------------------------------------------------------ properties
\* The cache entry of a source, and the entry of a source in a handler's copy.
CacheEntry(s) ==
  IF s = "nest" THEN [reading |-> currentData, stamp |-> currentDataTime]
  ELSE [reading |-> currentWeather, stamp |-> currentWeatherTime]

CopiedEntry(s) ==
  IF s = "nest" THEN [reading |-> data.ThermostatData, stamp |-> data.ThermostatStamp]
  ELSE [reading |-> data.WeatherData, stamp |-> data.WeatherStamp]

\* C1: whatever the interleaving of the pollers' store steps and a handler's
\* read, the copy a handler has taken holds, for each source, the Reading and the
\* timestamp of one and the same completed store (the last one), or the zero
\* Reading with the zero timestamp when no store has completed; never the Reading
\* of one store with the timestamp of another.  rootPageHandler (build 1) copies
\* the Reading alone.
C1_ReadIsOneStore ==
  hpc = "unlock" =>
    \A s \in Sources :
      /\ CopiedEntry(s).reading = lastStore[s].reading
      /\ build = 2 => CopiedEntry(s).stamp = lastStore[s].stamp

\* C1 witness: a read completed after stores of both sources, while the next
\* thermostat store waits for the mutex.
C1_Witness ==
  /\ hpc = "unlock"
  /\ build = 2
  /\ data.ThermostatStamp # ZeroTime
  /\ data.WeatherStamp # ZeroTime
  /\ pc["nest"] = "lock"
  /\ ts["nest"] # data.ThermostatData

\* A response that the specification counts as a failed fetch: a status outside
\* 2xx, or a body that does not decode as JSON.
BadResponse(r) == r.kind = "resp" /\ (r.status \notin 200..299 \/ ~r.valid)

\* A fetch that the specification counts as failed: a transport failure, a failed
\* body read, a non-2xx status or an undecodable body.
FailedFetch(r) == r.kind \in {"transport", "read"} \/ BadResponse(r)

\* C2 (as claimed): while the last fetch of a source is a failed one (from its
\* return until the next request is sent) the cache entry of that source, Reading
\* and timestamp, does not change, so that a read after the failed fetch returns
\* what a read before it returned.
C2_FailedFetchKeepsCache ==
  [][\A s \in Sources :
       (Alive' /\ FailedFetch(reply'[s])) => CacheEntry(s)' = CacheEntry(s)]_vars

\* The gauges a source's poller writes.
GaugesOf(s) ==
  IF s = "nest" THEN {"env_humidity", "env_temperature", "target_temperature", "is_heating"}
  ELSE {"outside_humidity", "outside_temperature", "outside_pressure"}

\* C3 (as claimed): while the last fetch of a source came back with a non-2xx
\* status or an undecodable body, the cached Reading and timestamp of that source
\* are retained and none of its gauges is written.
C3_BadResponseKeepsCache ==
  [][\A s \in Sources :
       (Alive' /\ BadResponse(reply'[s]))
         => /\ CacheEntry(s)' = CacheEntry(s)
            /\ \A g \in GaugesOf(s) : gauge'[g] = gauge[g]]_vars

\* C4 (as claimed): no fetch outcome ends the process; the only fatal exits are
\* the startup ones (missing flags, listener bind failure).
C4_NoSteadyStateCrash == proc \notin {"panic", "fatalDump"}

\* C5 (as claimed): whenever a fetch of some source is in flight, that poller
\* does not hold the cache mutex (the other poller and the handlers can take it),
\* and the HTTP front is serving or the main goroutine can go on towards serving
\* without that fetch returning.
C5_FetchNeverBlocksFront ==
  \A s \in Sources :
    (Alive /\ pc[s] = "fetch")
      => /\ currentDataMutex # s
         /\ \/ Listening
            \/ ENABLED (MainStartNest \/ MainStartWeather \/ MainStartTicker \/ MainListen)

\* The poller of s is between the return of a fetch and the end of its store.
Storing(s) == pc[s] \in {"lock", "setData", "setTime", "unlock"}

\* C6: when the last fetch of a source succeeded and its store is done, the
\* cache holds the Reading decoded from that fetch's response and a timestamp
\* not earlier than the time the fetch was initiated, and so does a copy that a
\* handler has just taken.
C6_ReadReturnsLastFetch ==
  \A s \in Sources :
    (reply[s].kind = "resp" /\ pc[s] \in {"gauges", "wait"})
      => /\ CacheEntry(s).reading = Decode(build, s, reply[s])
         /\ CacheEntry(s).stamp >= fetchStart[s]
         /\ fetchStart[s] > ZeroTime
         /\ hpc = "unlock"
              => /\ CopiedEntry(s).reading = Decode(build, s, reply[s])
                 /\ build = 2 => CopiedEntry(s).stamp >= fetchStart[s]

\* C6 witness: a read taken after a later thermostat fetch, initiated at time 2,
\* returned the full document.
C6_Witness ==
  /\ build = 2
  /\ pc["nest"] = "wait"
  /\ reply["nest"] = Response(200, TRUE, NestFullJson)
  /\ fetchStart["nest"] = 2
  /\ hpc = "unlock"
  /\ data.ThermostatData.CurrentHumidity = 452
  /\ data.ThermostatStamp = 2

\* C7 (as claimed): whenever the thermostat poller is not in the middle of a
\* store and its gauge writes, is_heating is 1 exactly when the hvac_state of the
\* last successful thermostat fetch (answered 2xx with a JSON body) is "heating",
\* and 0 otherwise, also before the first successful fetch.
C7_IsHeatingGauge ==
  ("is_heating" \in Registered(build) /\ ~Storing("nest") /\ pc["nest"] # "gauges")
    => /\ gauge["is_heating"] \in {0, 1}
       /\ gauge["is_heating"] = 1 <=> lastGood["nest"].reading.HvacState = "heating"

\* C8: with an empty --owm-apikey no weather request is ever sent, the weather
\* poller never enters its loop, and the weather cache entry and the outside_*
\* gauges keep their zero values.
C8_NoWeatherWithoutKey ==
  owmAPIKey = ""
    => /\ ~fetched["weather"]
       /\ pc["weather"] \in {"off", "check", "done"}
       /\ fetchStart["weather"] = ZeroTime
       /\ CacheEntry("weather") = [reading |-> ZeroOwmWeatherMain, stamp |-> ZeroTime]
       /\ \A g \in GaugesOf("weather") : gauge[g] = 0

\* C8 witness: with an empty key the weather goroutine has returned and the
\* thermostat poller, its startup fetch stored, has a per-tick fetch in flight.
C8_Witness ==
  /\ build = 2
  /\ owmAPIKey = ""
  /\ pc["weather"] = "done"
  /\ pc["nest"] = "fetch"
  /\ currentDataTime # ZeroTime
  /\ gauge["env_humidity"] = 452

\* The part of a response body that carries the Reading of s, and its timestamp
\* (rootPageHandler sends the thermostat Reading alone).
BodyReading(s) ==
  IF build = 2
  THEN IF s = "nest" THEN resp.body.thermostatData ELSE resp.body.weatherData
  ELSE resp.body

BodyStamp(s) == IF s = "nest" THEN resp.body.thermostatStamp ELSE resp.body.weatherStamp

\* The sources a build serves.
Served(b) == IF b = 2 THEN Sources ELSE {"nest"}

\* C9 (as claimed): every response written has status 200 and a body that holds
\* the cache contents: for each source whose poller is not in the middle of a
\* store, the Reading of the last successful fetch, and before the first
\* successful fetch the zero Reading with the zero timestamp.
C9_Always200FromCache ==
  resp # NoResp
    => /\ resp.status = 200
       /\ resp.body = Marshal(build, [ThermostatData |-> currentData,
                                      ThermostatStamp |-> currentDataTime,
                                      WeatherData |-> currentWeather,
                                      WeatherStamp |-> currentWeatherTime])
       /\ \A s \in Served(build) :
            ~Storing(s)
              => /\ BodyReading(s) = IF s = "nest"
                                     THEN MarshalThermostat(build, lastGood[s].reading)
                                     ELSE MarshalOwm(lastGood[s].reading)
                 /\ (build = 2 /\ ~lastGood[s].seen) => BodyStamp(s) = ZeroTime

\* A step of the HTTP handler (the process staying alive).
HandlerStep == Alive' /\ (hpc' # hpc \/ data' # data \/ resp' # resp)

\* C10: a step of an HTTP handler changes no cache entry, no cache timestamp and
\* no gauge, and starts no upstream fetch.
C10_HandlersOnlyRead ==
  [][HandlerStep => UNCHANGED <<cacheVars, gauge, pc, reply, fetched, fetchStart>>]_vars

\* C10 witness: a handler has copied a cache that holds a stored thermostat
\* Reading while a thermostat fetch is in flight.
C10_Witness ==
  /\ hpc = "unlock"
  /\ data.ThermostatData = currentData
  /\ currentDataTime # ZeroTime
  /\ gauge["env_humidity"] = 452
  /\ pc["nest"] = "fetch"

\* C11: the first call of a poller is made straight from its start and takes
\* no tick from its ticker; every request sent later is sent by the loop, from
\* its wait, on a tick taken from that source's own ticker.
C11_StartupFetchThenTicks ==
  [][\A s \in Sources :
       /\ (Alive' /\ pc[s] = "begin" /\ pc'[s] # "begin") => ticker'[s] = ticker[s]
       /\ (Alive' /\ pc[s] \notin {"begin", "fetch"} /\ pc'[s] = "fetch")
            => /\ pc[s] = "wait"
               /\ ticker[s] = "tick"
               /\ ticker'[s] = "empty"
               /\ \A o \in Sources \ {s} : ticker'[o] = ticker[o]]_vars

\* C11 witness: the startup fetch of the thermostat poller was stored with no
\* tick taken, and a later fetch, started on a tick, is in flight.
C11_Witness ==
  /\ build = 2
  /\ pc["nest"] = "fetch"
  /\ ticker["nest"] = "empty"
  /\ currentDataTime # ZeroTime
  /\ pc["weather"] = "fetch"
  /\ currentWeatherTime = ZeroTime

\* C12: with --client-secret or --thermostat-id missing the process exits from
\* the flag test: no ticker is created, no poller started, no request sent, the
\* listener is never bound, and no cache entry and no gauge is ever written.
C12_MissingFlagsExitFirst ==
  (clientSecret = "" \/ thermostatID = "")
    => /\ proc \in {"parse", "fatalFlags"}
       /\ \A s \in Sources :
            /\ pc[s] = "off"
            /\ ticker[s] = "none"
            /\ ~fetched[s]
            /\ CacheEntry(s) = [reading |-> ZeroReading(s), stamp |-> ZeroTime]
       /\ \A g \in Gauges : gauge[g] = 0
       /\ hpc = "idle"
       /\ resp = NoResp

\* C12 witness: the process has exited on a missing thermostat id.
C12_Witness ==
  /\ proc = "fatalFlags"
  /\ clientSecret # ""
  /\ thermostatID = ""

\* C13: a tick is taken from a source's ticker only by that source's poller in
\* its wait, that is after the previous call, its fetch and its store are over;
\* a tick that arrives while a fetch is in flight stays in the channel.
C13_OneFetchAtATime ==
  [][\A s \in Sources :
       /\ (Alive' /\ ticker[s] = "tick" /\ ticker'[s] # "tick") => pc[s] = "wait"
       /\ (Alive' /\ pc[s] # "fetch" /\ pc'[s] = "fetch") => pc[s] \in {"begin", "wait"}
       /\ (Alive' /\ pc[s] = "fetch" /\ pc'[s] # "fetch")
            => /\ pc'[s] \in {"wait", "lock"}
               /\ reply[s] = NoReply
               /\ reply'[s] # NoReply]_vars

\* C13 witness: a tick has arrived while a fetch of the thermostat poller,
\* itself started on a tick, is in flight.
C13_Witness ==
  /\ pc["nest"] = "fetch"
  /\ ticker["nest"] = "tick"
  /\ currentDataTime # ZeroTime

\* C14 (as claimed): a gauge of a source changes only in the gauge step of that
\* source's poller, after the store of a successful fetch (answered 2xx with a
\* JSON body) has replaced the cache entry and released the mutex, and it takes
\* the value of the Reading just stored; a failed fetch changes no gauge.
C14_CacheThenGauges ==
  [][\A s \in Sources :
       (Alive' /\ \E g \in GaugesOf(s) : gauge'[g] # gauge[g])
         => /\ pc[s] = "gauges"
            /\ pc'[s] = "wait"
            /\ GoodResponse(reply[s])
            /\ CacheEntry(s).reading = ts[s]
            /\ CacheEntry(s) = lastStore[s]
            /\ currentDataMutex # s
            /\ \A w \in GaugeWrites(build, s, CacheEntry(s).reading) : gauge'[w[1]] = w[2]]_vars

\* C15 (as claimed): a poller that has started takes every tick of its ticker
\* sooner or later, whatever its calls came back with, so that with ticks that
\* keep arriving it makes call after call; it stops only when the process ends
\* on a startup error (a listener that cannot be bound).
C15_PollersRunForever ==
  \A s \in Sources :
    (pc[s] \notin {"off", "check", "done"} /\ ticker[s] = "tick")
      ~> (ticker[s] = "empty" \/ proc = "fatalBind")

\* The value of key k in a response body, or zero when the body leaves it out.
Sent(j, k, zero) == IF k \in DOMAIN j THEN j[k] ELSE zero

\* The Reading that a successful fetch of s has to produce from its response:
\* the response's value for each key it holds, the zero value for each key it
\* leaves out (build 1 has no hvac_state and no structure_id field).
Lenient(b, s, r) ==
  IF s = "nest"
  THEN [CurrentHumidity |-> Sent(r.json, "humidity", 0),
        CurrentTemperature |-> Sent(r.json, "ambient_temperature_c", 0),
        TargetTemperature |-> Sent(r.json, "target_temperature_c", 0),
        HvacState |-> IF b = 2 THEN Sent(r.json, "hvac_state", "") ELSE "",
        StructureID |-> IF b = 2 THEN Sent(r.json, "structure_id", "") ELSE ""]
  ELSE LET m == Sent(r.json, "main", [none |-> 0])
       IN [Temperature |-> Sent(m, "temp", 0),
           Pressure |-> Sent(m, "pressure", 0),
           Humidity |-> Sent(m, "humidity", 0)]

\* C16: a fetch answered 2xx with a JSON body succeeds whatever keys the body
\* holds: the poller goes on to store, the value it holds and then stores has
\* the response's value for each key present and the zero value for each key
\* left out, and nothing of the Reading stored before.
C16_LenientDecoding ==
  \A s \in Sources :
    GoodResponse(reply[s])
      => /\ pc[s] \in {"lock", "setData", "setTime", "unlock", "gauges", "wait"}
         /\ ~logged[s]
         /\ ts[s] = Lenient(build, s, reply[s])
         /\ pc[s] \in {"unlock", "gauges", "wait"}
              => CacheEntry(s).reading = Lenient(build, s, reply[s])

\* C16 witness: with the Reading of a full document in the cache, a later
\* response that holds humidity and hvac_state only has been decoded: the
\* value to store has zero temperatures where the cache has 21.0 and 22.5.
C16_Witness ==
  /\ build = 2
  /\ reply["nest"] = Response(200, TRUE, NestPartialJson)
  /\ pc["nest"] = "lock"
  /\ currentData.CurrentTemperature = 210
  /\ currentData.StructureID = "abc"
  /\ ts["nest"].CurrentHumidity = 500
  /\ ts["nest"].CurrentTemperature = 0
  /\ ts["nest"].StructureID = ""

\* C16 witness after the store: the Reading stored is the partial one.
C16_WitnessStored ==
  /\ build = 2
  /\ reply["nest"] = Response(200, TRUE, NestPartialJson)
  /\ pc["nest"] = "wait"
  /\ currentDataTime = 2
  /\ currentData = [CurrentHumidity |-> 500, CurrentTemperature |-> 0,
                    TargetTemperature |-> 0, HvacState |-> "off", StructureID |-> ""]

\* C17: a step of the store of one source (Lock, the two assignments, Unlock,
\* the gauge writes) leaves the other source's Reading, timestamp and gauges
\* unchanged.
C17_StoreTouchesOwnEntryOnly ==
  [][\A s \in Sources :
       (Alive' /\ pc[s] \in {"lock", "setData", "setTime", "unlock", "gauges"}
               /\ pc'[s] # pc[s])
         => \A o \in Sources \ {s} :
              /\ CacheEntry(o)' = CacheEntry(o)
              /\ \A g \in GaugesOf(o) : gauge'[g] = gauge[g]]_vars

\* C17 witness: a weather store has just finished after a thermostat store, and
\* the thermostat entry and gauges still hold the thermostat's values.
C17_Witness ==
  /\ pc["weather"] = "wait"
  /\ currentWeatherTime = 2
  /\ gauge["outside_humidity"] = 55
  /\ currentDataTime = 1
  /\ currentData.CurrentHumidity = 452
  /\ gauge["env_humidity"] = 452

\* C18: the mutex is held by a poller exactly between its Lock and its Unlock
\* around the two cache assignments, and by a handler exactly while it copies the
\* cache: never while a fetch is in flight, never while a poller waits for a
\* tick.  The mutex is released by its holder's own Unlock and by nothing else.
\* A handler that waits for the mutex gets it, unless the process ends, with
\* nothing assumed of the upstream calls (they may all hang).
C18_MutexHeldOnlyToStore ==
  /\ [](/\ currentDataMutex \in {"free", "http"} \cup Sources
        /\ \A s \in Sources : currentDataMutex = s <=> pc[s] \in {"setData", "setTime", "unlock"}
        /\ currentDataMutex = "http" <=> hpc \in {"copy", "unlock"})
  /\ [][(Alive' /\ currentDataMutex # "free" /\ currentDataMutex' # currentDataMutex)
          => /\ currentDataMutex' = "free"
             /\ \A s \in Sources :
                  currentDataMutex = s => pc[s] = "unlock" /\ pc'[s] = "gauges"
             /\ currentDataMutex = "http" => hpc = "unlock" /\ hpc' = "idle"]_vars
  /\ (hpc = "lock") ~> (hpc = "copy" \/ ~Alive)

\* C18 witness: a handler and the weather poller both wait for the mutex that
\* the thermostat poller holds between its two assignments.
C18_Witness ==
  /\ hpc = "lock"
  /\ currentDataMutex = "nest"
  /\ pc["nest"] = "setTime"
  /\ pc["weather"] = "lock"

\* C19: while a poller is at its start, has a fetch in flight or waits for a
\* tick, the gauges of its source equal the fields of the cached Reading of that
\* source.
C19_GaugesAgreeWithCache ==
  /\ pc["nest"] \in {"begin", "fetch", "wait"}
       => /\ gauge["env_humidity"] = currentData.CurrentHumidity
          /\ gauge["env_temperature"] = currentData.CurrentTemperature
          /\ gauge["target_temperature"] = currentData.TargetTemperature
  /\ pc["weather"] \in {"begin", "fetch", "wait"}
       => /\ gauge["outside_humidity"] = currentWeather.Humidity
          /\ gauge["outside_temperature"] = currentWeather.Temperature
          /\ gauge["outside_pressure"] = currentWeather.Pressure

\* C19 witness: a thermostat fetch is in flight and the weather poller waits
\* for a tick, each with a stored Reading and gauges that show it.
C19_Witness ==
  /\ pc["nest"] = "fetch"
  /\ currentData.CurrentTemperature = 210
  /\ gauge["env_temperature"] = 210
  /\ gauge["target_temperature"] = 225
  /\ pc["weather"] = "wait"
  /\ currentWeather.Pressure = 1018
  /\ gauge["outside_pressure"] = 1018

====
